---- MODULE Spec2Model ----
(***************************************************************************)
(* Crawl orchestration and checkpointing of ComprehensiveCarEventScraper   *)
(* (src/scraper.js, second class of the file), driven either by the        *)
(* console runner (src/console-scraper.js) or by the desktop application's *)
(* IPC handlers (src/index.js).                                            *)
(*                                                                         *)
(* A run is one execution of scrapeAllEvents on one scraper instance.  The *)
(* async code is cut at its awaits: every action below is one synchronous  *)
(* segment of the code, from the resumption of an await to the next await  *)
(* that waits for the network, the sink or the checkpoint file.  Awaits of *)
(* log writes and of timers that guard no shared state are not cut.        *)
(* saveProgress takes its snapshot synchronously and its file write is     *)
(* taken to land with the call, unless the process dies inside the write.  *)
(***************************************************************************)
EXTENDS Integers, Sequences, FiniteSets, TLC

VARIABLES
    app,                \* index.js start-up: "off", "ready" (window and handlers), "failed"
    surface,            \* "console" (console-scraper.js) or "desktop" (index.js)
    site,               \* the crawled site: per partition, its listing pages
    run,                \* per run: the scraper instance and scrapeAllEvents' locals
    heap,               \* the Set objects holding tracked event links
    nextSet,            \* next free Set object
    file,               \* the progress file (progressPath)
    sink,               \* the CSV file: number of records per event link
    isScraperRunning,   \* index.js module variable
    globalRunning,      \* global.isScraperRunning: "undefined", "true", "false"
    scraperInstance,    \* index.js module variable: a run, or 0 for null
    moduleTracked,      \* index.js module variable trackedEventLinks: a Set object
    faults,             \* failures injected so far
    combined            \* combinedScraper.js: one call of scrapeWithAxios, in its
                        \* field region one call of scrapeRegionEvents, and in its
                        \* field pool one call of processStatesConcurrently

vars == <<app, surface, site, run, heap, nextSet, file, sink, isScraperRunning,
          globalRunning, scraperInstance, moduleTracked, faults, combined>>

(***************************************************************************)
(* Bounds and inputs                                                       *)
(***************************************************************************)
MaxRuns == 2
MaxFaults == 1
MaxRetryFaults == 3
MaxRetriesOption == 3
MaxRepeatFaults == 6
MaxRegionPages == 8
FailingAttempts == 1
MaxPoolStates == 3
concurrency == 2
maxRetries == 3
defaultRetries == 3
maxConcurrency == 2

RunIds == 1..MaxRuns
SetIds == 0..(3 * MaxRuns + 1)

\* state-car-show-links.json as loaded: the partitions' names, in list order
StateNames == <<"Iowa", "Ohio", "Utah">>

\* the site walked by the console runs: listing pages of each partition
ConsoleSite == << << <<1, 2, 1>>, <<3, 2>> >>,
                  << <<4, 5, 6>>, <<7>> >>,
                  << <<8>> >> >>

\* the site walked by the desktop runs
DesktopSite == << << <<1>> >>,
                  << <<2>> >> >>

\* the site walked by the console runs whose requests fail repeatedly
RetrySite == << << <<1>> >>,
                << <<2>> >> >>

\* a site that answers a request past a partition's last page with the
\* content of the last page
RepeatSite == << << <<1, 2>> >> >>

\* a site of three partitions, each with one listing page of five links
HappySite == << << <<1, 2, 3, 4, 5>> >>,
                << <<6, 7, 8, 9, 10>> >>,
                << <<11, 12, 13, 14, 15>> >> >>

\* a site with a listing page of two chunks, a second listing page and a
\* second partition
BatchSite == << << <<1, 2, 3>>, <<4>> >>,
                << <<5>> >> >>

\* a site for a state-car-show-links.json whose second entry is not a string
\* (null or a number): loadStateLinks makes { link, name: 'Unknown State' } of
\* it, and the entry has no listing page
OddSite == << << <<1, 2, 3>>, <<5>> >>,
              <<>>,
              << <<4>> >> >>

\* a site whose listing pages list a link twice, so that both occurrences fall
\* into one chunk
DupSite == << << <<1, 1>> >>,
              << <<2, 2>> >> >>

Min(a, b) == IF a < b THEN a ELSE b

Range(seq) == {seq[k] : k \in 1..Len(seq)}

\* the event links a site lists
LinksOf(s) ==
    UNION {UNION {Range(s[n][p]) : p \in 1..Len(s[n])} : n \in 1..Len(s)}

Links == LinksOf(ConsoleSite) \cup LinksOf(DesktopSite) \cup LinksOf(RetrySite)
            \cup LinksOf(RepeatSite) \cup LinksOf(HappySite) \cup LinksOf(DupSite)
            \cup LinksOf(BatchSite) \cup LinksOf(OddSite)

\* stateName.toLowerCase().replace(/\s+/g, '_')
StateId(name) ==
    CASE name = "Iowa" -> "iowa"
      [] name = "Ohio" -> "ohio"
      [] name = "Utah" -> "utah"
      [] OTHER -> "unknown_state"

StateIds == {StateId(StateNames[k]) : k \in 1..Len(StateNames)}

\* the failures a walk may suffer: enough to exhaust the retries of one request
\* on the small site
FaultBudget ==
    IF site = RetrySite \/ site = BatchSite THEN MaxRetryFaults
    ELSE IF site = RepeatSite THEN MaxRepeatFaults
    ELSE MaxFaults

\* stateLinks.length for the site walked
NumStates == Len(site)

\* stateId of stateLinks[i] (i counts from 0 as in the code)
IdOf(i) == StateId(StateNames[i + 1])

\* the links on listing page `page` of stateLinks[i]; past the last page the
\* site answers with a page that lists no event
ListingPage(i, page) ==
    IF page <= Len(site[i + 1]) THEN site[i + 1][page]
    ELSE IF site = RepeatSite THEN site[i + 1][Len(site[i + 1])]
    ELSE <<>>

AllLinks == LinksOf(site)

\* the links listed on the pages of stateLinks[i]
LinksOfState(i) == UNION {Range(site[i + 1][p]) : p \in 1..Len(site[i + 1])}

(***************************************************************************)
(* The scraper instance, the checkpoint file and the detail tasks          *)
(***************************************************************************)
NoProgress == [s \in StateIds |-> 0]

NoFile ==
    [exists |-> FALSE, trackedEventLinks |-> {}, currentState |-> 0,
     totalStates |-> 0, processedEvents |-> 0, totalEventsFound |-> 0,
     stateProgress |-> NoProgress, completedStates |-> {}, partial |-> FALSE]

\* the progress file after fs.writeFile opened it for writing, which empties
\* it, and before all of the JSON text was written
PartialFile == [NoFile EXCEPT !.exists = TRUE, !.partial = TRUE]

\* the file is there and JSON.parse (fs.readJSON) accepts its content
Readable(f) == f.exists /\ ~f.partial

\* constructor (scraper.js 434-461) and the locals of scrapeAllEvents and
\* scrapeStateWorker; pageReq, detailReq and pagesDone record the requests the
\* run has issued and the pages it has finished; stopReq, stopI, stopPc and
\* stopPage record where it was when its stop was requested; resumed and
\* startCompleted record how the run was started and what its file held;
\* attempts and pageDelays are the requests issued and the delays slept for
\* the current listing page; ended records the pages whose retry loop was left
\* by a break in the catch block, pageErrors the error events of that block;
\* reported is what the start-scraping handler reported when the run returned;
\* resetSeen tells that reset-scraper ran while the run was executing; gaveUp
\* holds the links whose scrapeEventDetails gave up with its retries used up;
\* stateErrors holds the indices for which the catch block of scrapeAllEvents'
\* loop emitted its error event; spawned and settled count the
\* scrapeEventDetails calls made and settled for the current listing page;
\* saveFailures counts the saveProgress calls whose fs.writeFile rejected,
\* saveErrorEvents the error events saveProgress passed to onProgress;
\* startProcessed is processedEvents as the loop of scrapeAllEvents began,
\* writes counts the writeRecords calls of the run that resolved
NewInstance(ref) ==
    [pc |-> "idle", resumeTrue |-> FALSE, resumeFromState |-> 0,
     isRunning |-> TRUE, trackedRef |-> ref,
     currentState |-> 0, totalStates |-> 0,
     processedEvents |-> 0, totalEventsFound |-> 0,
     stateProgress |-> NoProgress, completedStates |-> {},
     i |-> 0, currentPage |-> 0, retries |-> 0,
     eventLinks |-> <<>>, filteredOut |-> {}, chunkStart |-> 0, tasks |-> <<>>,
     outcome |-> "none", cleanupPending |-> FALSE, cleanupSaved |-> FALSE,
     pageReq |-> {}, detailReq |-> {}, pagesDone |-> {},
     stopReq |-> FALSE, stopI |-> -1, stopPc |-> "none", stopPage |-> 0,
     resumed |-> FALSE, startCompleted |-> {},
     attempts |-> 0, pageDelays |-> <<>>, ended |-> {}, pageErrors |-> {},
     reported |-> "none", resetSeen |-> FALSE, gaveUp |-> {},
     stateErrors |-> {}, spawned |-> 0, settled |-> 0,
     saveFailures |-> 0, saveErrorEvents |-> 0,
     startProcessed |-> 0, writes |-> 0]

\* a run started with resume requested finds a progress file it can read
Resumed(resume, f) == resume /\ Readable(f)

\* the completed states in the progress file found by such a run
StartCompleted(resume, f) == IF Resumed(resume, f) THEN f.completedStates ELSE {}

\* progressData of saveProgress
Snapshot(rec, h) ==
    [exists |-> TRUE,
     trackedEventLinks |-> h[rec.trackedRef],
     currentState |-> rec.currentState,
     totalStates |-> rec.totalStates,
     processedEvents |-> rec.processedEvents,
     totalEventsFound |-> rec.totalEventsFound,
     stateProgress |-> rec.stateProgress,
     completedStates |-> rec.completedStates,
     partial |-> FALSE]

Tracked(r) == heap[run[r].trackedRef]

Live(r) == run[r].pc \in {"begin", "loop", "pageFetch", "chunk", "chunkNext", "pageHead"}

InWorker(rec) == rec.pc \in {"pageFetch", "chunk", "chunkNext", "pageHead"}

\* a scrapeEventDetails without the trackedEventLinks check
NeverScraped(tracked, link) == FALSE

\* this.trackedEventLinks.has(eventLink)
AlreadyScraped(tracked, link) == link \in tracked

\* .filter(link => !this.trackedEventLinks.has(link))
FilterTracked(links, tracked) == SelectSeq(links, LAMBDA l : l \notin tracked)

\* const delay = Math.pow(2, retries) * 1000
BackoffDelay(retries) == (2 ^ retries) * 1000

\* scrapeEventDetails from its call to its first await: the has-check, then
\* axios.get is issued
CallTask(link, tracked) ==
    [link |-> link,
     st |-> IF AlreadyScraped(tracked, link) THEN "null" ELSE "fetching",
     retries |-> 0,
     requests |-> IF AlreadyScraped(tracked, link) THEN 0 ELSE 1,
     trackedAtCall |-> link \in tracked,
     writeFailed |-> FALSE,
     delays |-> <<>>,
     notFound |-> FALSE,
     blank |-> FALSE,
     errorEvents |-> 0]

\* a scrapeEventDetails that gives up at its first error
GiveUpAtFirstError(task, tracked) == [task EXCEPT !.retries = @ + 1, !.st = "null"]

\* the catch block of scrapeEventDetails (retries++, the error event, the
\* return at maxRetries) and the head of its next iteration
AfterTaskError(task, tracked) ==
    LET n == task.retries + 1
        t == [task EXCEPT !.retries = n, !.errorEvents = @ + 1]
    IN  IF n >= maxRetries THEN [t EXCEPT !.st = "null"]
        ELSE IF AlreadyScraped(tracked, task.link)
             THEN [t EXCEPT !.st = "null"]
             ELSE [t EXCEPT !.st = "backoff"]

\* scrapeEventDetails returned null from its catch block
GaveUp(task) == task.st = "null" /\ task.retries >= maxRetries

Settled(task) == task.st \in {"fulfilled", "null"}

\* a chunk that is the whole rest of the page
RestOfPage(eventLinks, start) == SubSeq(eventLinks, start, Len(eventLinks))

\* chunk = eventLinks.slice(i, i + this.maxConcurrency)
ChunkOf(eventLinks, start) ==
    SubSeq(eventLinks, start, Min(start + maxConcurrency - 1, Len(eventLinks)))

(***************************************************************************)
(* Synchronous segments of scrapeStateWorker and scrapeAllEvents, as       *)
(* functions of the instance: each yields the instance after the segment   *)
(* and whether the segment called saveProgress.                            *)
(***************************************************************************)
Out(rec, save) == [rec |-> rec, save |-> save]

\* a return of the worker that no saveProgress follows
WorkerReturnsUnsaved(rec) ==
    Out([rec EXCEPT !.pc = "loop", !.i = @ + 1, !.currentPage = 0, !.retries = 0,
                    !.attempts = 0, !.pageDelays = <<>>, !.spawned = 0, !.settled = 0,
                    !.eventLinks = <<>>, !.filteredOut = {}, !.chunkStart = 0,
                    !.tasks = <<>>],
        FALSE)

\* scrapeStateWorker returns to scrapeAllEvents, which saves and moves to i + 1
WorkerReturns(rec) ==
    Out([rec EXCEPT !.pc = "loop", !.i = @ + 1, !.currentPage = 0, !.retries = 0,
                    !.attempts = 0, !.pageDelays = <<>>, !.spawned = 0, !.settled = 0,
                    !.eventLinks = <<>>, !.filteredOut = {}, !.chunkStart = 0,
                    !.tasks = <<>>],
        TRUE)

\* a worker that ends without marking its state
NotMarked(rec) == rec

\* this.completedStates.add(stateId)
MarkCompleted(rec) == [rec EXCEPT !.completedStates = @ \cup {IdOf(rec.i)}]

\* axios.get(pageUrl) is issued
IssuePage(rec) ==
    Out([rec EXCEPT !.pc = "pageFetch", !.retries = 0, !.tasks = <<>>,
                    !.attempts = 1, !.pageDelays = <<>>, !.spawned = 0, !.settled = 0,
                    !.pageReq = @ \cup {<<rec.i, rec.currentPage>>}],
        FALSE)

\* head of while (hasMorePages): the stop poll, then the page request
PageLoopHead(rec) ==
    IF ~rec.isRunning THEN WorkerReturns(rec) ELSE IssuePage(rec)

\* chunk.map(eventLink => this.scrapeEventDetails(eventLink, ...))
SpawnChunk(rec, tracked) ==
    LET chunk == ChunkOf(rec.eventLinks, rec.chunkStart)
        tasks == [k \in 1..Len(chunk) |-> CallTask(chunk[k], tracked)]
    IN  Out([rec EXCEPT !.pc = "chunk", !.tasks = tasks, !.spawned = @ + Len(tasks),
                        !.detailReq = @ \cup {tasks[k].link : k \in
                                 {n \in 1..Len(tasks) : tasks[n].requests > 0}}],
            FALSE)

\* head of for (const chunk of chunks): the stop poll, then the batch
ChunkLoopHead(rec, tracked) ==
    IF ~rec.isRunning THEN WorkerReturns(rec) ELSE SpawnChunk(rec, tracked)

\* the listing page arrived: filter, end of pagination or first batch
PageFetched(rec, tracked) ==
    LET links == ListingPage(rec.i, rec.currentPage)
        ev == FilterTracked(links, tracked)
    IN  IF Len(ev) = 0
        THEN WorkerReturns(MarkCompleted(rec))
        ELSE ChunkLoopHead([rec EXCEPT !.eventLinks = ev,
                                       !.filteredOut = Range(links) \ Range(ev),
                                       !.chunkStart = 1],
                           tracked)

\* the catch block of the listing-page loop and what follows it: the error
\* event, then the break and the end of the worker, or the delay and the next
\* request
PageFailed(rec, notFound) ==
    LET n == rec.retries + 1
        kind == IF notFound THEN "notFound" ELSE "failed"
        rec1 == [rec EXCEPT !.retries = n, !.pageErrors = @ \cup {kind}]
    IN  IF notFound \/ n >= maxRetries
        THEN WorkerReturns(MarkCompleted(
                 [rec1 EXCEPT !.ended = @ \cup {[i |-> rec.i, page |-> rec.currentPage,
                                                 attempts |-> rec.attempts,
                                                 kind |-> kind]}]))
        ELSE Out([rec1 EXCEPT !.attempts = @ + 1,
                              !.pageDelays = Append(@, BackoffDelay(n))],
                 FALSE)

\* the links of the batch whose scrapeEventDetails gave up
GivenUpIn(tasks) == {tasks[k].link : k \in {n \in 1..Len(tasks) : GaveUp(tasks[n])}}

\* a worker that ends at the first batch with a link given up
BatchAborts(rec) ==
    LET ok == {k \in 1..Len(rec.tasks) : rec.tasks[k].st = "fulfilled"}
        rec1 == [rec EXCEPT !.processedEvents = @ + Cardinality(ok),
                            !.gaveUp = @ \cup GivenUpIn(rec.tasks)]
    IN  IF GivenUpIn(rec.tasks) # {} THEN WorkerReturns(MarkCompleted(rec1))
        ELSE Out([rec1 EXCEPT !.pc = "chunkNext"], TRUE)

\* Promise.allSettled resolved: count, saveProgress
BatchSettled(rec) ==
    LET ok == {k \in 1..Len(rec.tasks) : rec.tasks[k].st = "fulfilled"} IN
    Out([rec EXCEPT !.processedEvents = @ + Cardinality(ok), !.pc = "chunkNext",
                    !.gaveUp = @ \cup GivenUpIn(rec.tasks),
                    !.settled = @ + Cardinality({k \in 1..Len(rec.tasks) :
                                                   Settled(rec.tasks[k])})],
        TRUE)

\* the page's batches are done: cursor, saveProgress, next page after the delay
PageDone(rec) ==
    Out([rec EXCEPT !.totalEventsFound = @ + Len(rec.eventLinks),
                    !.attempts = 0, !.pageDelays = <<>>, !.retries = 0,
                    !.spawned = 0, !.settled = 0,
                    !.stateProgress[IdOf(rec.i)] = rec.currentPage,
                    !.currentPage = @ + 1,
                    !.pc = "pageHead", !.tasks = <<>>, !.eventLinks = <<>>,
                    !.filteredOut = {}, !.chunkStart = 0],
        TRUE)

\* a page that is over after its first batch
FirstBatchOnly(rec, tracked) == PageDone(rec)

\* after the batch's saveProgress: the next batch, or the end of the page
AfterBatch(rec, tracked) ==
    IF rec.chunkStart + maxConcurrency <= Len(rec.eventLinks)
    THEN ChunkLoopHead([rec EXCEPT !.chunkStart = @ + maxConcurrency], tracked)
    ELSE PageDone(rec)

\* a scrapeAllEvents that returns without its saveProgress calls
ReturnUnsaved(rec, outcome) ==
    Out([rec EXCEPT !.pc = "returned", !.outcome = outcome], FALSE)

\* scrapeAllEvents returns: the stop branch's and the finally block's saveProgress
Return(rec, outcome) ==
    Out([rec EXCEPT !.pc = "returned", !.outcome = outcome], TRUE)

\* let currentPage = lastPage + 1 (or 1)
StartWorker(rec) ==
    [rec EXCEPT !.currentPage = rec.stateProgress[IdOf(rec.i)] + 1]

\* a loop without its test of completedStates
NoSkip(i, completed) == i

\* the first index from i on whose state is not in completedStates
RECURSIVE NextIncomplete(_, _)
NextIncomplete(i, completed) ==
    IF i >= NumStates THEN i
    ELSE IF IdOf(i) \in completed THEN NextIncomplete(i + 1, completed)
    ELSE i

\* the stop poll of scrapeAllEvents' loop
StopObserved(rec, global) == ~rec.isRunning \/ global = "false"

\* stateLink.startsWith('http') throws a TypeError: stateLinks[i].link is not
\* a string
MalformedLink(i) == Len(site[i + 1]) = 0

\* a catch block that ends the loop
CatchEndsLoop(rec) ==
    [rec EXCEPT !.stateErrors = @ \cup {rec.i}, !.i = NumStates]

\* the catch block of the loop of scrapeAllEvents: the error event, and i++
PartitionCatch(rec) ==
    [rec EXCEPT !.stateErrors = @ \cup {rec.i}, !.i = @ + 1]

\* head of for (let i = resumeFromState; ...): poll, skip completed states, and
\* enter scrapeStateWorker up to its first page request, or up to its throw
RECURSIVE LoopHead(_, _)
LoopHead(rec, global) ==
    IF rec.i >= NumStates THEN Return(rec, "completed")
    ELSE IF StopObserved(rec, global) THEN Return(rec, "stopped")
    ELSE LET j == NextIncomplete(rec.i, rec.completedStates) IN
         IF j >= NumStates
         THEN Return([rec EXCEPT !.currentState = NumStates - 1, !.i = j], "completed")
         ELSE IF MalformedLink(j)
         THEN LoopHead(PartitionCatch([rec EXCEPT !.currentState = j, !.i = j]), global)
         ELSE PageLoopHead(StartWorker([rec EXCEPT !.currentState = j, !.i = j]))

\* loadProgress
LoadProgress(rec, f, ref) ==
    IF Readable(f)
    THEN [rec EXCEPT !.currentState = f.currentState,
                     !.totalStates = f.totalStates,
                     !.processedEvents = f.processedEvents,
                     !.totalEventsFound = f.totalEventsFound,
                     !.trackedRef = ref,
                     !.stateProgress = f.stateProgress,
                     !.completedStates = f.completedStates]
    ELSE rec

\* scrapeAllEvents up to its loop
BeginRun(rec, f, ref) ==
    LET load == rec.resumeTrue \/ rec.resumeFromState > 0
        rec1 == IF load THEN LoadProgress(rec, f, ref) ELSE rec
        from == IF rec.resumeTrue THEN rec1.currentState ELSE rec.resumeFromState
    IN  [rec1 EXCEPT !.totalStates = NumStates, !.currentState = from, !.i = from,
                     !.pc = "loop", !.startProcessed = rec1.processedEvents]

(***************************************************************************)
(* Actions of a run                                                        *)
(***************************************************************************)
\* start-scraping after await scraperInstance.scrapeAllEvents(...) resolved:
\* 'Scraping completed successfully' is logged and returned and the 100%
\* 'Scraping completed' event is sent
HandlerReturns(rec) == [rec EXCEPT !.reported = "completed"]

\* the segment's result becomes the run's state; a saveProgress of the segment
\* writes the file; the start-scraping handler resumes when its run returns
Apply(r, out) ==
    /\ run' = [run EXCEPT ![r] = IF surface = "desktop" /\ out.rec.pc = "returned"
                                 THEN HandlerReturns(out.rec)
                                 ELSE out.rec]
    /\ file' = IF out.save THEN Snapshot(out.rec, heap') ELSE file
    /\ isScraperRunning' =
          IF surface = "desktop" /\ out.rec.pc = "returned" THEN FALSE
          ELSE isScraperRunning

Begin(r) ==
    /\ run[r].pc = "begin"
    /\ LET load == (run[r].resumeTrue \/ run[r].resumeFromState > 0) /\ Readable(file) IN
       /\ heap' = IF load THEN [heap EXCEPT ![nextSet] = file.trackedEventLinks]
                  ELSE heap
       /\ nextSet' = IF load THEN nextSet + 1 ELSE nextSet
    /\ Apply(r, Out(BeginRun(run[r], file, nextSet), FALSE))
    /\ UNCHANGED <<app, surface, site, combined, sink, globalRunning, scraperInstance,
                   moduleTracked, faults>>

PartitionLoop(r) ==
    /\ run[r].pc = "loop"
    /\ UNCHANGED <<heap>>
    /\ Apply(r, LoopHead(run[r], globalRunning))
    /\ UNCHANGED <<app, surface, site, combined, nextSet, sink, globalRunning, scraperInstance,
                   moduleTracked, faults>>

PageHead(r) ==
    /\ run[r].pc = "pageHead"
    /\ UNCHANGED <<heap>>
    /\ Apply(r, PageLoopHead(run[r]))
    /\ UNCHANGED <<app, surface, site, combined, nextSet, sink, globalRunning, scraperInstance,
                   moduleTracked, faults>>

PageResponse(r) ==
    /\ run[r].pc = "pageFetch"
    /\ UNCHANGED <<heap>>
    /\ Apply(r, PageFetched(run[r], Tracked(r)))
    /\ UNCHANGED <<app, surface, site, combined, nextSet, sink, globalRunning, scraperInstance,
                   moduleTracked, faults>>

\* a page past the partition's last one answers 404
PageNotFound(r) ==
    /\ run[r].pc = "pageFetch"
    /\ run[r].currentPage > Len(site[run[r].i + 1])
    /\ UNCHANGED <<heap>>
    /\ Apply(r, PageFailed(run[r], TRUE))
    /\ UNCHANGED <<app, surface, site, combined, nextSet, sink, globalRunning, scraperInstance,
                   moduleTracked, faults>>

\* a timeout, a reset connection or a 5xx answer
PageFetchFails(r) ==
    /\ run[r].pc = "pageFetch"
    /\ faults < FaultBudget
    /\ faults' = faults + 1
    /\ UNCHANGED <<heap>>
    /\ Apply(r, PageFailed(run[r], FALSE))
    /\ UNCHANGED <<app, surface, site, combined, nextSet, sink, globalRunning, scraperInstance,
                   moduleTracked>>

SetTask(r, k, task) ==
    /\ run' = [run EXCEPT ![r].tasks[k] = task]
    /\ UNCHANGED <<app, surface, site, combined, nextSet, file, isScraperRunning, globalRunning,
                   scraperInstance, moduleTracked>>

\* the detail page arrived: the record is built, the link is added to
\* trackedEventLinks and csvWriter.writeRecords is called
DetailFetched(r, k) ==
    /\ run[r].pc = "chunk"
    /\ k \in 1..Len(run[r].tasks)
    /\ run[r].tasks[k].st = "fetching"
    /\ heap' = [heap EXCEPT ![run[r].trackedRef] = @ \cup {run[r].tasks[k].link}]
    /\ SetTask(r, k, [run[r].tasks[k] EXCEPT !.st = "writing"])
    /\ UNCHANGED <<sink, faults>>

\* the detail page arrived without the expected elements: every selector
\* yields '', the record of empty fields is built, the link is added to
\* trackedEventLinks and csvWriter.writeRecords is called
DetailFetchedBlank(r, k) ==
    /\ run[r].pc = "chunk"
    /\ k \in 1..Len(run[r].tasks)
    /\ run[r].tasks[k].st = "fetching"
    /\ heap' = [heap EXCEPT ![run[r].trackedRef] = @ \cup {run[r].tasks[k].link}]
    /\ SetTask(r, k, [run[r].tasks[k] EXCEPT !.st = "writing", !.blank = TRUE])
    /\ UNCHANGED <<sink, faults>>

DetailFetchFails(r, k) ==
    /\ run[r].pc = "chunk"
    /\ k \in 1..Len(run[r].tasks)
    /\ run[r].tasks[k].st = "fetching"
    /\ faults < FaultBudget
    /\ faults' = faults + 1
    /\ SetTask(r, k, AfterTaskError(run[r].tasks[k], Tracked(r)))
    /\ UNCHANGED <<heap, sink>>

\* the site answers by a fixed rule: the first FailingAttempts requests of a
\* scrapeEventDetails call are answered with a 5xx, every later one with the
\* detail page
AnsweredWithError(task) == task.retries < FailingAttempts

\* axios.get of a detail page settled as that rule tells: the catch block, or
\* the record, trackedEventLinks.add and the call of writeRecords
DetailAnswered(r, k) ==
    /\ run[r].pc = "chunk"
    /\ k \in 1..Len(run[r].tasks)
    /\ run[r].tasks[k].st = "fetching"
    /\ heap' = IF AnsweredWithError(run[r].tasks[k]) THEN heap
               ELSE [heap EXCEPT ![run[r].trackedRef] = @ \cup {run[r].tasks[k].link}]
    /\ SetTask(r, k, IF AnsweredWithError(run[r].tasks[k])
                     THEN AfterTaskError(run[r].tasks[k], Tracked(r))
                     ELSE [run[r].tasks[k] EXCEPT !.st = "writing"])
    /\ UNCHANGED <<sink, faults>>

\* the detail page answers 404: axios.get rejects, the same catch block runs
DetailNotFound(r, k) ==
    /\ run[r].pc = "chunk"
    /\ k \in 1..Len(run[r].tasks)
    /\ run[r].tasks[k].st = "fetching"
    /\ faults < FaultBudget
    /\ faults' = faults + 1
    /\ SetTask(r, k, AfterTaskError([run[r].tasks[k] EXCEPT !.notFound = TRUE],
                                   Tracked(r)))
    /\ UNCHANGED <<heap, sink>>

\* the backoff delay is over: axios.get is issued again
DetailRetry(r, k) ==
    /\ run[r].pc = "chunk"
    /\ k \in 1..Len(run[r].tasks)
    /\ run[r].tasks[k].st = "backoff"
    /\ run' = [run EXCEPT ![r].tasks[k].st = "fetching",
                          ![r].tasks[k].requests = @ + 1,
                          ![r].tasks[k].delays =
                              Append(@, BackoffDelay(run[r].tasks[k].retries)),
                          ![r].detailReq = @ \cup {run[r].tasks[k].link}]
    /\ UNCHANGED <<app, surface, site, combined, heap, nextSet, file, sink, isScraperRunning,
                   globalRunning, scraperInstance, moduleTracked, faults>>

\* writeRecords resolved: the record is in the CSV file
WriteDone(r, k) ==
    /\ run[r].pc = "chunk"
    /\ k \in 1..Len(run[r].tasks)
    /\ run[r].tasks[k].st = "writing"
    /\ sink' = [sink EXCEPT ![run[r].tasks[k].link] = @ + 1]
    /\ run' = [run EXCEPT ![r].tasks[k].st = "fulfilled", ![r].writes = @ + 1]
    /\ UNCHANGED <<app, surface, site, combined, heap, nextSet, file, isScraperRunning,
                   globalRunning, scraperInstance, moduleTracked, faults>>

\* writeRecords rejected
WriteFails(r, k) ==
    /\ run[r].pc = "chunk"
    /\ k \in 1..Len(run[r].tasks)
    /\ run[r].tasks[k].st = "writing"
    /\ faults < FaultBudget
    /\ faults' = faults + 1
    /\ SetTask(r, k, AfterTaskError([run[r].tasks[k] EXCEPT !.writeFailed = TRUE],
                                   Tracked(r)))
    /\ UNCHANGED <<heap, sink>>

ChunkSettled(r) ==
    /\ run[r].pc = "chunk"
    /\ \A k \in 1..Len(run[r].tasks) : Settled(run[r].tasks[k])
    /\ UNCHANGED <<heap>>
    /\ Apply(r, BatchSettled(run[r]))
    /\ UNCHANGED <<app, surface, site, combined, nextSet, sink, globalRunning, scraperInstance,
                   moduleTracked, faults>>

ChunkNext(r) ==
    /\ run[r].pc = "chunkNext"
    /\ UNCHANGED <<heap>>
    /\ LET out == AfterBatch(run[r], Tracked(r)) IN
       Apply(r, IF out.rec.pc = "pageHead"
                THEN Out([out.rec EXCEPT !.pagesDone =
                                    @ \cup {<<run[r].i, run[r].currentPage>>}],
                         out.save)
                ELSE out)
    /\ UNCHANGED <<app, surface, site, combined, nextSet, sink, globalRunning, scraperInstance,
                   moduleTracked, faults>>

(***************************************************************************)
(* The console runner (console-scraper.js): one process per run            *)
(***************************************************************************)
NoProcess == \A r \in RunIds : ~Live(r)

FirstIdle(r) == run[r].pc = "idle" /\ \A q \in 1..(r - 1) : run[q].pc # "idle"

\* stop()
Stop(rec) ==
    [rec EXCEPT !.isRunning = FALSE,
                !.stopReq = TRUE,
                !.stopI = IF rec.stopReq THEN @ ELSE rec.i,
                !.stopPc = IF rec.stopReq THEN @ ELSE rec.pc,
                !.stopPage = IF rec.stopReq THEN @ ELSE rec.currentPage]

\* main: new scraper, handlers, scrapeAllEvents(stateLinksToProcess, resume)
Main(r, resume) ==
    /\ surface = "console"
    /\ NoProcess
    /\ FirstIdle(r)
    /\ heap' = [heap EXCEPT ![nextSet] = {}]
    /\ run' = [run EXCEPT ![r] = [NewInstance(nextSet) EXCEPT !.pc = "begin",
                                                              !.resumeTrue = resume,
                                                              !.resumed = Resumed(resume, file),
                                                              !.startCompleted =
                                                                  StartCompleted(resume, file)]]
    /\ nextSet' = nextSet + 1
    /\ globalRunning' = "true"
    /\ UNCHANGED <<app, surface, site, combined, file, sink, isScraperRunning, scraperInstance,
                   moduleTracked, faults>>

\* SIGINT or SIGTERM: scraper.stop(), then cleanup and process.exit follow
TerminationSignal(r) ==
    /\ surface = "console"
    /\ Live(r)
    /\ ~run[r].cleanupPending
    /\ run' = [run EXCEPT ![r] = [Stop(run[r]) EXCEPT !.cleanupPending = TRUE]]
    /\ UNCHANGED <<app, surface, site, combined, heap, nextSet, file, sink, isScraperRunning,
                   globalRunning, scraperInstance, moduleTracked, faults>>

\* the handler's scraper.cleanup(): saveProgress
Cleanup(r) ==
    /\ surface = "console"
    /\ Live(r)
    /\ run[r].cleanupPending
    /\ ~run[r].cleanupSaved
    /\ run' = [run EXCEPT ![r].cleanupSaved = TRUE]
    /\ file' = Snapshot(run[r], heap)
    /\ UNCHANGED <<app, surface, site, combined, heap, nextSet, sink, isScraperRunning,
                   globalRunning, scraperInstance, moduleTracked, faults>>

\* the handler's process.exit(0), once cleanup() has resolved
ProcessExit(r) ==
    /\ surface = "console"
    /\ Live(r)
    /\ run[r].cleanupSaved
    /\ run' = [run EXCEPT ![r].pc = "exited"]
    /\ UNCHANGED <<app, surface, site, combined, heap, nextSet, file, sink, isScraperRunning,
                   globalRunning, scraperInstance, moduleTracked, faults>>

\* the process dies (kill -9, power loss): memory is lost, files stay
Crash(r) ==
    /\ surface = "console"
    /\ Live(r)
    /\ run' = [run EXCEPT ![r].pc = "killed"]
    /\ UNCHANGED <<app, surface, site, combined, heap, nextSet, file, sink, isScraperRunning,
                   globalRunning, scraperInstance, moduleTracked, faults>>

\* the synchronous segment run r executes next, once what it awaits has
\* resolved successfully
NextSegment(r) ==
    CASE run[r].pc = "loop" -> LoopHead(run[r], globalRunning)
      [] run[r].pc = "pageHead" -> PageLoopHead(run[r])
      [] run[r].pc = "pageFetch" -> PageFetched(run[r], Tracked(r))
      [] run[r].pc = "chunk" /\ \A k \in 1..Len(run[r].tasks) : Settled(run[r].tasks[k])
            -> BatchSettled(run[r])
      [] run[r].pc = "chunkNext" -> AfterBatch(run[r], Tracked(r))
      [] OTHER -> Out(run[r], FALSE)

\* the catch block of saveProgress: console.error('Error saving progress:',
\* error), and saveProgress resolves
SaveProgressFailed(rec) == [rec EXCEPT !.saveFailures = @ + 1]

\* fs.writeFile of the segment's saveProgress rejects (the disk is full, the
\* file or its directory is not writable): the file stays as it was, the run
\* goes on with the progress it holds in memory
SaveFails(r) ==
    /\ surface = "console"
    /\ Live(r)
    /\ NextSegment(r).save
    /\ faults < FaultBudget
    /\ faults' = faults + 1
    /\ LET rec == NextSegment(r).rec
           rec1 == IF run[r].pc = "chunkNext" /\ rec.pc = "pageHead"
                   THEN [rec EXCEPT !.pagesDone =
                                       @ \cup {<<run[r].i, run[r].currentPage>>}]
                   ELSE rec
       IN  run' = [run EXCEPT ![r] = SaveProgressFailed(rec1)]
    /\ UNCHANGED <<app, surface, site, combined, heap, nextSet, file, sink, isScraperRunning,
                   globalRunning, scraperInstance, moduleTracked>>

\* the process dies inside the fs.writeFile of a saveProgress: the file was
\* opened for writing, the JSON text is not all written
KilledInSave(r) ==
    /\ surface = "console"
    /\ Live(r)
    /\ NextSegment(r).save
    /\ run' = [run EXCEPT ![r].pc = "killed"]
    /\ file' = PartialFile
    /\ UNCHANGED <<app, surface, site, combined, heap, nextSet, sink, isScraperRunning,
                   globalRunning, scraperInstance, moduleTracked, faults>>

(***************************************************************************)
(* The desktop application (index.js): IPC handlers of one process         *)
(***************************************************************************)
\* start-scraping: the running flags, loadPreviousProgress when resuming, the
\* new instance, and the call of scrapeAllEvents(stateLinks, resumeFromState)
StartScraping(r, resume) ==
    /\ surface = "desktop"
    /\ app = "ready"
    /\ ~isScraperRunning
    /\ FirstIdle(r)
    /\ LET loaded == resume /\ Readable(file)
           ref == IF loaded THEN nextSet ELSE moduleTracked
           inst == [NewInstance(ref) EXCEPT !.resumed = Resumed(resume, file),
                                             !.startCompleted =
                                                 StartCompleted(resume, file)]
       IN  /\ heap' = IF loaded THEN [heap EXCEPT ![nextSet] = file.trackedEventLinks]
                      ELSE heap
           /\ nextSet' = IF loaded THEN nextSet + 1 ELSE nextSet
           /\ moduleTracked' = ref
           /\ run' = [run EXCEPT ![r] =
                        IF loaded
                        THEN [inst EXCEPT !.pc = "begin",
                                          !.resumeFromState = file.currentState,
                                          !.currentState = file.currentState,
                                          !.totalStates = file.totalStates,
                                          !.processedEvents = file.processedEvents,
                                          !.totalEventsFound = file.totalEventsFound]
                        ELSE [inst EXCEPT !.pc = "begin"]]
    /\ isScraperRunning' = TRUE
    /\ globalRunning' = "true"
    /\ scraperInstance' = r
    /\ UNCHANGED <<app, surface, site, combined, file, sink, faults>>

\* stop-scraping: the running flags are cleared and the instance is dropped
StopScraping ==
    /\ surface = "desktop"
    /\ app = "ready"
    /\ isScraperRunning
    /\ isScraperRunning' = FALSE
    /\ globalRunning' = "false"
    /\ scraperInstance' = 0
    /\ run' = [r \in RunIds |->
                 IF r = scraperInstance /\ ~run[r].stopReq
                 THEN [run[r] EXCEPT !.stopReq = TRUE, !.stopI = run[r].i,
                                     !.stopPc = run[r].pc,
                                     !.stopPage = run[r].currentPage]
                 ELSE run[r]]
    /\ UNCHANGED <<app, surface, site, combined, heap, nextSet, file, sink, moduleTracked, faults>>

\* the application starts: the module variables, then the app.whenReady
\* callback, whose fs.readJSON of the progress file is inside the try block
\* that also holds createWindow() and setupIpcHandlers()
AppReady ==
    /\ surface = "desktop"
    /\ app = "off"
    /\ app' = IF file.exists /\ file.partial THEN "failed" ELSE "ready"
    /\ heap' = [heap EXCEPT ![nextSet] = IF Readable(file) THEN file.trackedEventLinks
                                          ELSE {}]
    /\ moduleTracked' = nextSet
    /\ nextSet' = nextSet + 1
    /\ isScraperRunning' = FALSE
    /\ globalRunning' = "false"
    /\ scraperInstance' = 0
    /\ UNCHANGED <<surface, site, combined, run, file, sink, faults>>

\* the application's process dies inside the fs.writeFile of a run's
\* saveProgress
AppKilledInSave ==
    /\ surface = "desktop"
    /\ app = "ready"
    /\ \E r \in RunIds : Live(r) /\ NextSegment(r).save
    /\ app' = "off"
    /\ run' = [r \in RunIds |-> IF Live(r) THEN [run[r] EXCEPT !.pc = "killed"] ELSE run[r]]
    /\ file' = PartialFile
    /\ UNCHANGED <<surface, site, combined, heap, nextSet, sink, isScraperRunning,
                   globalRunning, scraperInstance, moduleTracked, faults>>

\* reset-scraper: refused while isScraperRunning; else the instance is dropped,
\* the tracked links are cleared, the progress file and the CSV file are
\* deleted (the deletions are taken to land with the call)
ResetScraper ==
    /\ surface = "desktop"
    /\ app = "ready"
    /\ ~isScraperRunning
    /\ scraperInstance' = 0
    /\ heap' = [heap EXCEPT ![moduleTracked] = {}]
    /\ file' = NoFile
    /\ sink' = [l \in Links |-> 0]
    /\ run' = [r \in RunIds |-> IF Live(r) THEN [run[r] EXCEPT !.resetSeen = TRUE]
                                 ELSE run[r]]
    /\ UNCHANGED <<app, surface, site, combined, nextSet, isScraperRunning, globalRunning,
                   moduleTracked, faults>>

(***************************************************************************)
(* CombinedScraper.scrapeWithAxios (combinedScraper.js), a separate script *)
(* that shares nothing with the runs above; its call is taken before the   *)
(* first run starts.                                                       *)
(***************************************************************************)
\* locals of scrapeRegionEvents; requested records the listing pages asked
\* for, yields what each page yielded: "links", "empty" (no link from either
\* fetch path) or "error" (the page's iteration threw)
NewRegion ==
    [pc |-> "idle", currentPage |-> 1, consecutiveEmptyPages |-> 0,
     requested |-> {}, yields |-> <<>>]

\* locals of processStatesConcurrently: states is its argument (the names of
\* the entries), queue the entries not yet started, activePromises the Map
\* from a name to the worker set for it, workers the state of every async
\* worker started so far, in the order of their start
NewPool ==
    [pc |-> "idle", states |-> <<>>, queue |-> <<>>, activePromises |-> {},
     workers |-> <<>>]

NewCombined ==
    [pc |-> "idle", retries |-> 0, attempt |-> 0, requests |-> 0, result |-> "none",
     region |-> NewRegion, pool |-> NewPool]

\* this.retries = options.retries || 3
Retries(option) == IF option = 0 THEN defaultRetries ELSE option

NoRunYet == \A r \in RunIds : run[r].pc = "idle"

CombinedStep(next) ==
    /\ NoRunYet
    /\ combined' = next
    /\ UNCHANGED <<app, surface, site, run, heap, nextSet, file, sink, isScraperRunning,
                   globalRunning, scraperInstance, moduleTracked, faults>>

\* head of for (let attempt = 0; attempt < this.retries; attempt++)
AxiosLoopHead(c) ==
    IF c.attempt < c.retries
    THEN [c EXCEPT !.pc = "fetching", !.requests = @ + 1]
    ELSE [c EXCEPT !.pc = "returned", !.result = "failure"]

\* the catch block: the last attempt returns success: false, the others wait
AxiosCatch(c) ==
    IF c.attempt = c.retries - 1
    THEN [c EXCEPT !.pc = "returned", !.result = "failure"]
    ELSE [c EXCEPT !.pc = "waiting"]

\* new CombinedScraper(options).scrapeWithAxios(url) up to its first request
ScrapeWithAxios(option) ==
    /\ combined.pc = "idle"
    /\ CombinedStep(AxiosLoopHead([NewCombined EXCEPT !.retries = Retries(option)]))

AxiosResponds ==
    /\ combined.pc = "fetching"
    /\ CombinedStep([combined EXCEPT !.pc = "returned", !.result = "success"])

AxiosFails ==
    /\ combined.pc = "fetching"
    /\ CombinedStep(AxiosCatch(combined))

\* the delay is over: attempt++ and the loop head
AxiosRetry ==
    /\ combined.pc = "waiting"
    /\ CombinedStep(AxiosLoopHead([combined EXCEPT !.attempt = @ + 1]))

\* head of while (hasMorePages): scrapeWithAxios(pageUrl) is called
RegionLoopHead(g) ==
    [g EXCEPT !.pc = "axios", !.requested = @ \cup {g.currentPage}]

\* the page yielded links: the counter is reset, currentPage++, the next page
RegionPageYields(g) ==
    RegionLoopHead([g EXCEPT !.consecutiveEmptyPages = 0,
                             !.yields = Append(@, "links"),
                             !.currentPage = @ + 1])

\* neither fetch path yielded a link: the counter, the break at 2, else
\* currentPage++ and the next page
RegionPageEmpty(g) ==
    LET n == g.consecutiveEmptyPages + 1
        g1 == [g EXCEPT !.consecutiveEmptyPages = n, !.yields = Append(@, "empty")]
    IN  IF n >= 2 THEN [g1 EXCEPT !.pc = "returned"]
        ELSE RegionLoopHead([g1 EXCEPT !.currentPage = @ + 1])

\* the catch block of the loop: hasMorePages = false past page 3, and break
RegionPageThrows(g) ==
    [g EXCEPT !.pc = "returned", !.yields = Append(@, "error")]

RegionStep(next) == CombinedStep([combined EXCEPT !.region = next])

\* the walk may go on to a further page
RegionMayAdvance == combined.region.currentPage < MaxRegionPages

ScrapeRegionEvents ==
    /\ combined.region.pc = "idle"
    /\ RegionStep(RegionLoopHead(NewRegion))

\* scrapeWithAxios returned success: true with at least one link
RegionAxiosLinks ==
    /\ combined.region.pc = "axios"
    /\ RegionMayAdvance
    /\ RegionStep(RegionPageYields(combined.region))

\* scrapeWithAxios returned success: false or no link: scrapeWithPuppeteer is
\* called for the same page
RegionAxiosNone ==
    /\ combined.region.pc = "axios"
    /\ RegionStep([combined.region EXCEPT !.pc = "puppeteer"])

\* scrapeWithPuppeteer returned success: true with at least one link
RegionPuppeteerLinks ==
    /\ combined.region.pc = "puppeteer"
    /\ RegionMayAdvance
    /\ RegionStep(RegionPageYields(combined.region))

\* scrapeWithPuppeteer returned success: false or no link
RegionPuppeteerNone ==
    /\ combined.region.pc = "puppeteer"
    /\ RegionMayAdvance \/ combined.region.consecutiveEmptyPages >= 1
    /\ RegionStep(RegionPageEmpty(combined.region))

\* scrapeWithPuppeteer threw: puppeteer.launch is outside its try block and
\* browser.close() is in its finally block
RegionPuppeteerThrows ==
    /\ combined.region.pc = "puppeteer"
    /\ RegionStep(RegionPageThrows(combined.region))

\* the lists of states passed to processStatesConcurrently, by their names
PoolLists == UNION {[1..n -> Range(StateNames)] : n \in 0..MaxPoolStates}

\* activePromises.set(name, promise): a Map holds one value per key
MapSet(map, name, worker) == {e \in map : e[1] # name} \cup {<<name, worker>>}

\* activePromises.size
MapSize(map) == Cardinality(map)

\* while (activePromises.size < this.concurrency && queue.length > 0): shift,
\* start the worker, set it in the Map
RECURSIVE FillPool(_)
FillPool(q) ==
    IF MapSize(q.activePromises) < concurrency /\ Len(q.queue) > 0
    THEN FillPool([q EXCEPT !.queue = Tail(@),
                            !.workers = Append(@, "running"),
                            !.activePromises =
                                MapSet(@, Head(q.queue), Len(q.workers) + 1)])
    ELSE q

\* one iteration of the outer loop up to its await of Promise.race, or the
\* end of the loop and the return
PoolLoop(q) ==
    LET q1 == FillPool(q) IN
    IF MapSize(q1.activePromises) > 0 THEN [q1 EXCEPT !.pc = "race"]
    ELSE [q1 EXCEPT !.pc = "returned"]

PoolStep(next) == CombinedStep([combined EXCEPT !.pool = next])

ProcessStatesConcurrently(states) ==
    /\ combined.pool.pc = "idle"
    /\ PoolStep(PoolLoop([NewPool EXCEPT !.states = states, !.queue = states]))

\* the worker's scrapeRegionEvents and fs.writeFile resolved: it returns its name
WorkerCompletes(w) ==
    /\ w \in 1..Len(combined.pool.workers)
    /\ combined.pool.workers[w] = "running"
    /\ PoolStep([combined.pool EXCEPT !.workers[w] = "completed"])

\* the worker's scrapeRegionEvents or fs.writeFile rejected: its catch block
\* logs the error and the worker returns its name
WorkerFails(w) ==
    /\ w \in 1..Len(combined.pool.workers)
    /\ combined.pool.workers[w] = "running"
    /\ PoolStep([combined.pool EXCEPT !.workers[w] = "failed"])

\* Promise.race resolved with the name of a settled promise of the Map: the
\* name is deleted and the outer loop goes on
RaceResolves(e) ==
    /\ combined.pool.pc = "race"
    /\ e \in combined.pool.activePromises
    /\ combined.pool.workers[e[2]] # "running"
    /\ PoolStep(PoolLoop([combined.pool EXCEPT !.activePromises = @ \ {e}]))

(***************************************************************************)
(* Specifications                                                          *)
(***************************************************************************)
InitCommon ==
    /\ run = [r \in RunIds |-> NewInstance(0)]
    /\ heap = [s \in SetIds |-> {}]
    /\ nextSet = 1
    /\ file = NoFile
    /\ sink = [l \in Links |-> 0]
    /\ isScraperRunning = FALSE
    /\ scraperInstance = 0
    /\ moduleTracked = 0
    /\ faults = 0
    /\ combined = NewCombined

Init ==
    /\ app = "off"
    /\ surface = "console"
    /\ site = ConsoleSite
    /\ globalRunning = "undefined"
    /\ InitCommon

InitDesktop ==
    /\ app = "ready"
    /\ surface = "desktop"
    /\ site = DesktopSite
    /\ globalRunning = "false"
    /\ InitCommon

InitRetry ==
    /\ app = "off"
    /\ surface = "console"
    /\ site = RetrySite
    /\ globalRunning = "undefined"
    /\ InitCommon

RunStep(r) ==
    \/ Begin(r)
    \/ PartitionLoop(r)
    \/ PageHead(r)
    \/ PageResponse(r)
    \/ ChunkSettled(r)
    \/ ChunkNext(r)
    \/ \E k \in 1..maxConcurrency : DetailFetched(r, k) \/ WriteDone(r, k)

FaultStep(r) ==
    \/ PageFetchFails(r)
    \/ \E k \in 1..maxConcurrency :
          DetailFetchFails(r, k) \/ DetailRetry(r, k) \/ WriteFails(r, k)

MainStep(r) == \E resume \in BOOLEAN : Main(r, resume)

SignalStep(r) == TerminationSignal(r) \/ Cleanup(r) \/ ProcessExit(r)

DesktopStep(r) == \E resume \in BOOLEAN : StartScraping(r, resume)

\* console runs with failing fetches and writes, and abrupt termination
Next == \E r \in RunIds : RunStep(r) \/ FaultStep(r) \/ MainStep(r) \/ Crash(r)

Spec == Init /\ [][Next]_vars

\* console runs of a site whose fetches and writes succeed, terminated abruptly
NextCrash == \E r \in RunIds : RunStep(r) \/ MainStep(r) \/ Crash(r)

SpecCrash == Init /\ [][NextCrash]_vars

\* console runs of a site whose fetches and writes succeed, stopped by a signal
NextStop == \E r \in RunIds : RunStep(r) \/ MainStep(r) \/ SignalStep(r)

SpecStop == Init /\ [][NextStop]_vars

\* requests answered 404; elsewhere the site answers a request past a
\* partition's last page with a page that lists no event
NotFoundStep(r) ==
    \/ PageNotFound(r)
    \/ \E k \in 1..maxConcurrency : DetailNotFound(r, k)

CombinedNext ==
    \/ \E option \in 0..MaxRetriesOption : ScrapeWithAxios(option)
    \/ AxiosResponds
    \/ AxiosFails
    \/ AxiosRetry

\* console and desktop runs of the three-partition site whose fetches and
\* writes all succeed, never stopped
InitHappy ==
    /\ surface \in {"console", "desktop"}
    /\ app = IF surface = "desktop" THEN "ready" ELSE "off"
    /\ site = HappySite
    /\ globalRunning = IF surface = "desktop" THEN "false" ELSE "undefined"
    /\ InitCommon

NextHappy == \E r \in RunIds : RunStep(r) \/ MainStep(r) \/ DesktopStep(r)

SpecHappy == InitHappy /\ [][NextHappy]_vars

\* console runs of a site some of whose detail pages lack the expected
\* elements
NextBlank ==
    \E r \in RunIds :
        \/ RunStep(r)
        \/ MainStep(r)
        \/ \E k \in 1..maxConcurrency : DetailFetchedBlank(r, k)

SpecBlank == Init /\ [][NextBlank]_vars

\* console runs of the site that lists links twice, its detail requests
\* answered by the fixed rule, every write succeeding
InitDup ==
    /\ app = "off"
    /\ surface = "console"
    /\ site = DupSite
    /\ globalRunning = "undefined"
    /\ InitCommon

NextDup ==
    \E r \in RunIds :
        \/ Begin(r)
        \/ PartitionLoop(r)
        \/ PageHead(r)
        \/ PageResponse(r)
        \/ ChunkSettled(r)
        \/ ChunkNext(r)
        \/ MainStep(r)
        \/ \E k \in 1..maxConcurrency :
              DetailAnswered(r, k) \/ DetailRetry(r, k) \/ WriteDone(r, k)

SpecDup == InitDup /\ [][NextDup]_vars

\* console runs of the site with several batches, pages and partitions, whose
\* detail requests fail up to the exhaustion of the retries of one link
InitBatch ==
    /\ app = "off"
    /\ surface = "console"
    /\ site = BatchSite
    /\ globalRunning = "undefined"
    /\ InitCommon

NextBatch ==
    \E r \in RunIds :
        \/ RunStep(r)
        \/ MainStep(r)
        \/ \E k \in 1..maxConcurrency : DetailFetchFails(r, k) \/ DetailRetry(r, k)

SpecBatch == InitBatch /\ [][NextBatch]_vars

\* console runs over a list of states whose second entry has no usable link
InitOdd ==
    /\ app = "off"
    /\ surface = "console"
    /\ site = OddSite
    /\ globalRunning = "undefined"
    /\ InitCommon

NextOdd == \E r \in RunIds : RunStep(r) \/ MainStep(r) \/ SignalStep(r)

SpecOdd == InitOdd /\ [][NextOdd]_vars

\* console runs of the small site some of whose saveProgress calls fail
NextSave == \E r \in RunIds : RunStep(r) \/ MainStep(r) \/ SaveFails(r)

SpecSave == InitRetry /\ [][NextSave]_vars

\* one call of processStatesConcurrently over every list of states and every
\* order in which the workers end
PoolNext ==
    \/ \E states \in PoolLists : ProcessStatesConcurrently(states)
    \/ \E w \in 1..MaxPoolStates : WorkerCompletes(w) \/ WorkerFails(w)
    \/ \E e \in Range(StateNames) \X (1..MaxPoolStates) : RaceResolves(e)

SpecPool == InitRetry /\ [][PoolNext]_vars

\* one call of scrapeRegionEvents over every sequence of page outcomes
RegionNext ==
    \/ ScrapeRegionEvents
    \/ RegionAxiosLinks
    \/ RegionAxiosNone
    \/ RegionPuppeteerLinks
    \/ RegionPuppeteerNone
    \/ RegionPuppeteerThrows

SpecRegion == InitRetry /\ [][RegionNext]_vars

\* console runs of the small site whose requests fail up to the exhaustion of
\* the retries, and the call of scrapeWithAxios
NextRetry ==
    \/ \E r \in RunIds : RunStep(r) \/ FaultStep(r) \/ NotFoundStep(r) \/ MainStep(r)
    \/ CombinedNext

SpecRetry == InitRetry /\ [][NextRetry]_vars

\* console runs of the site that repeats its last page, with failing fetches
InitRepeat ==
    /\ app = "off"
    /\ surface = "console"
    /\ site = RepeatSite
    /\ globalRunning = "undefined"
    /\ InitCommon

NextRepeat == \E r \in RunIds : RunStep(r) \/ FaultStep(r) \/ MainStep(r)

SpecRepeat == InitRepeat /\ [][NextRepeat]_vars

\* console runs of a site whose fetches and writes succeed, killed while the
\* progress file is being written
NextTorn == \E r \in RunIds : RunStep(r) \/ MainStep(r) \/ KilledInSave(r)

SpecTorn == Init /\ [][NextTorn]_vars

\* desktop runs started and stopped through the IPC handlers
NextDesktop == (\E r \in RunIds : RunStep(r) \/ DesktopStep(r)) \/ StopScraping

SpecDesktop == InitDesktop /\ [][NextDesktop]_vars

\* the desktop application from its start: runs started, stopped and reset
\* through the IPC handlers, and the process killed while a run saves
InitApp ==
    /\ app = "off"
    /\ surface = "desktop"
    /\ site = DesktopSite
    /\ globalRunning = "false"
    /\ InitCommon

NextApp ==
    \/ AppReady
    \/ \E r \in RunIds : RunStep(r) \/ DesktopStep(r)
    \/ StopScraping
    \/ ResetScraper
    \/ AppKilledInSave

SpecApp == InitApp /\ [][NextApp]_vars

\* every awaited fetch, write and timer of a run completes
FairDesktop == \A r \in RunIds : WF_vars(RunStep(r))

SpecDesktopFair == InitDesktop /\ [][NextDesktop]_vars /\ FairDesktop

(***************************************************************************)
(* Properties                                                              *)
(***************************************************************************)
Tasks(r) == 1..Len(run[r].tasks)

\* run r is the resumed successor of run p, which was terminated abruptly
ResumedAfterKill(p, r) ==
    /\ r = p + 1
    /\ run[p].pc = "killed"
    /\ run[r].pc # "idle"
    /\ run[r].resumeTrue

\* C1: in scrapeEventDetails a link is in trackedEventLinks only after
\* writeRecords for its record has returned: in no reachable state is a link
\* in the set of a running scraper while its record is not in the sink.
C1_TrackedOnlyAfterWrite ==
    \A r \in RunIds : Live(r) => \A l \in Tracked(r) : sink[l] > 0

\* C2: when writeRecords fails for a link of a batch, the link is absent from
\* trackedEventLinks once scrapeEventDetails has returned, and from the
\* checkpoint saved after the batch.
C2_FailedWriteNotTracked ==
    \A r \in RunIds : \A k \in Tasks(r) :
        (Live(r) /\ run[r].tasks[k].writeFailed /\ Settled(run[r].tasks[k]))
        => /\ run[r].tasks[k].link \notin Tracked(r)
           /\ run[r].pc = "chunkNext"
                => run[r].tasks[k].link \notin file.trackedEventLinks

\* C3: a link that was in trackedEventLinks when a run was terminated abruptly
\* is never fetched again, and no second record is written for it, by the run
\* resumed from the last saved checkpoint.
C3_TrackedNeverRefetched ==
    \A p, r \in RunIds :
        ResumedAfterKill(p, r)
        => /\ heap[run[p].trackedRef] \cap run[r].detailReq = {}
           /\ \A l \in heap[run[p].trackedRef] : sink[l] <= 1

\* C4: after an abrupt termination at any point, the run resumed from the last
\* saved checkpoint, on a stable site with every fetch and write succeeding,
\* ends with every link of the site in the sink and with every listing page of
\* every partition fetched by one of the runs.
C4_NoLossAfterCrash ==
    \A p, r \in RunIds :
        (ResumedAfterKill(p, r) /\ p = 1 /\ run[r].pc = "returned")
        => /\ \A l \in AllLinks : sink[l] > 0
           /\ \A i \in 0..(NumStates - 1) : \A page \in 1..Len(site[i + 1]) :
                 <<i, page>> \in run[p].pageReq \cup run[r].pageReq

\* run r is the resumed successor of run p, which returned after a stop request
ResumedAfterStop(p, r) ==
    /\ r = p + 1
    /\ run[p].pc = "returned"
    /\ run[p].stopReq
    /\ run[r].pc # "idle"
    /\ run[r].resumeTrue

\* C5: a run halted by a cooperative stop and then resumed with resume = true,
\* on a stable site with every fetch and write succeeding, leaves in the sink
\* what one uninterrupted run leaves: every link of the site exactly once.
C5_StopResumeEqualsUninterrupted ==
    \A p, r \in RunIds :
        (ResumedAfterStop(p, r) /\ p = 1 /\ run[r].pc = "returned" /\ ~run[r].stopReq)
        => \A l \in AllLinks : sink[l] = 1

\* C6: no HTTP request is issued for the detail page of a link that was in
\* trackedEventLinks when its listing page was filtered or when
\* scrapeEventDetails was called for it.
C6_NoFetchOfTrackedLink ==
    \A r \in RunIds : \A k \in Tasks(r) :
        (run[r].tasks[k].trackedAtCall \/ run[r].tasks[k].link \in run[r].filteredOut)
        => run[r].tasks[k].requests = 0

\* C6 witness: scrapeEventDetails has been called for a link that was tracked,
\* on a page from which tracked links were filtered or not, and has returned
C6_TrackedLinkSkipped ==
    \E r \in RunIds : \E k \in Tasks(r) :
        /\ run[r].tasks[k].trackedAtCall
        /\ run[r].tasks[k].st = "null"
        /\ run[r].tasks[k].link \in Tracked(r)

\* C7: once a stop has been requested for a run, the run starts no further
\* partition, issues no further listing-page request and starts no further
\* detail batch.
C7_NoWorkAfterStop ==
    [][\A r \in RunIds :
          run[r].stopReq
          => /\ run'[r].pageReq = run[r].pageReq
             /\ run'[r].detailReq = run[r].detailReq
             /\ run'[r].currentState = run[r].currentState]_vars

C9_NoExitWithBatchInFlight ==
    \A r \in RunIds :
        run[r].pc = "exited" => \A k \in Tasks(r) : Settled(run[r].tasks[k])

\* the first run was stopped while its worker was on partition 2 of 3, and has
\* halted (scrapeAllEvents returned, or the signal handler ended the process)
StoppedInSecond ==
    /\ NumStates = 3
    /\ run[1].stopReq
    /\ run[1].stopI = 1
    /\ InWorker([pc |-> run[1].stopPc])
    /\ run[1].pc \in {"returned", "exited"}

\* the last page of stateLinks[i] whose batches run r has finished
LastPageDone(r, i) ==
    LET done == {pg \in 1..Len(site[i + 1]) : <<i, pg>> \in run[r].pagesDone} IN
    IF done = {} THEN 0 ELSE CHOOSE pg \in done : \A q \in done : q <= pg

\* the checkpoint left by the first run, and the requests of the run resumed
\* from it: partition 1 completed, partition 2 at its last finished page with
\* its written links tracked, nothing of partition 3, and the resumed run asks
\* first for page lastPage + 1 of partition 2
SecondPartitionCheckpoint ==
    /\ run[2].pc = "idle"
         => /\ IdOf(0) \in file.completedStates
            /\ IdOf(1) \notin file.completedStates
            /\ file.stateProgress[IdOf(1)] = LastPageDone(1, 1)
            /\ \A l \in LinksOfState(1) : sink[l] > 0 => l \in file.trackedEventLinks
            /\ IdOf(2) \notin file.completedStates
            /\ file.stateProgress[IdOf(2)] = 0
            /\ file.trackedEventLinks \cap LinksOfState(2) = {}
            /\ file.currentState = 1
    /\ (run[2].resumeTrue /\ run[2].pc \notin {"idle", "begin"})
         => /\ \A q \in run[2].pageReq :
                  q[1] >= 1 /\ (q[1] = 1 => q[2] >= LastPageDone(1, 1) + 1)
            /\ run[2].pageReq # {} => <<1, LastPageDone(1, 1) + 1>> \in run[2].pageReq

\* C10: whenever a stop is requested while partition 2 of 3 is being processed,
\* the checkpoint saved at halt has partition 1 completed, partition 2 not
\* completed with lastPage its last finished page and its written links
\* tracked, nothing for partition 3, and a resume asks first for page
\* lastPage + 1 of partition 2 and for no page of partition 1.
C10_StopInSecondPartition ==
    StoppedInSecond => SecondPartitionCheckpoint

\* C11: when a run is started with resume requested and a progress file is
\* present, scrapeAllEvents restores the file's completed states, page cursors,
\* tracked links and counters before it processes any partition, whatever the
\* saved state index is.
C11_ResumeRestoresCheckpoint ==
    [][\A r \in RunIds :
          (run[r].pc = "begin" /\ run'[r].pc = "loop" /\ run[r].resumed /\ file.exists)
          => /\ run'[r].completedStates = file.completedStates
             /\ run'[r].stateProgress = file.stateProgress
             /\ heap'[run'[r].trackedRef] = file.trackedEventLinks
             /\ run'[r].processedEvents = file.processedEvents
             /\ run'[r].totalEventsFound = file.totalEventsFound]_vars

\* C12: a run started without resume begins with no tracked link, no completed
\* state and every page cursor unset, whatever the progress file and the
\* application's set of tracked links hold.
C12_FreshStartIsEmpty ==
    [][\A r \in RunIds :
          (StartScraping(r, FALSE) \/ Main(r, FALSE))
          => /\ heap'[run'[r].trackedRef] = {}
             /\ run'[r].completedStates = {}
             /\ run'[r].stateProgress = NoProgress]_vars

\* C13: when the requests for a listing page fail until the retries are
\* exhausted (no 404), the worker stops the partition with an error event,
\* leaves the page cursor at the last successful page and does not add the
\* partition to completedStates.
C13_TerminalFailureNotCompleted ==
    \A r \in RunIds : \A e \in run[r].ended :
        e.kind = "failed"
        => /\ "failed" \in run[r].pageErrors
           /\ run[r].stateProgress[IdOf(e.i)] = e.page - 1
           /\ IdOf(e.i) \notin run[r].completedStates

\* every run started so far after the first one was resumed from a progress file
AllResumed ==
    \A r \in RunIds : (r > 1 /\ run[r].pc # "idle") => run[r].resumed

\* C14: a state is added to completedStates only when a listing page of it
\* yielded no new link or its requests failed terminally, never by a stop
\* request, and after it is in completedStates no listing page of it is
\* requested again, in this run or in a run resumed from the progress file.
C14_CompletedOnceAndFinal ==
    [][\A r \in RunIds : \A i \in 0..(NumStates - 1) :
          /\ (IdOf(i) \in run'[r].completedStates /\ IdOf(i) \notin run[r].completedStates
              /\ run[r].pc # "begin")
               => /\ run[r].pc = "pageFetch"
                  /\ run[r].i = i
                  /\ \/ FilterTracked(ListingPage(i, run[r].currentPage), Tracked(r)) = <<>>
                     \/ \E e \in run'[r].ended \ run[r].ended : e.i = i
          /\ (IdOf(i) \in run[r].completedStates \cup run[r].startCompleted)
               => \A q \in run'[r].pageReq \ run[r].pageReq : q[1] # i]_vars

\* C15: over page completions, saves, stops and resumes, the page cursor of a
\* state in the progress file never decreases, and within one worker call each
\* finished page is the one after the page finished before it.
C15_CursorNeverDecreases ==
    [][(AllResumed /\ AllResumed')
          => /\ \A s \in StateIds : file'.stateProgress[s] >= file.stateProgress[s]
             /\ \A r \in RunIds : \A q \in run'[r].pagesDone \ run[r].pagesDone :
                   q[2] = run[r].stateProgress[IdOf(q[1])] + 1]_vars

\* C16: a 404 answer to a listing-page request ends the pagination of its state
\* at once: no later page of the state is requested, the state is marked
\* completed, and no error event is emitted for the 404.
C16_NotFoundEndsPagination ==
    \A r \in RunIds : \A e \in run[r].ended :
        e.kind = "notFound"
        => /\ IdOf(e.i) \in run[r].completedStates
           /\ \A q \in run[r].pageReq : q[1] = e.i => q[2] <= e.page
           /\ "notFound" \notin run[r].pageErrors

\* a task of run r that only ever met retryable fetch errors, for a link no
\* other task of the run has scraped
OnlyRetryableErrors(r, k) ==
    /\ run[r].tasks[k].retries > 0
    /\ ~run[r].tasks[k].writeFailed
    /\ ~run[r].tasks[k].notFound
    /\ run[r].tasks[k].link \notin Tracked(r)

\* C17: a fetch that fails every time with a retryable error is attempted
\* exactly maxRetries times (3) in scrapeEventDetails and in the listing loop
\* of scrapeStateWorker, and exactly the configured number of times in
\* scrapeWithAxios; the outcome is then a value: the task settles with null,
\* the partition's loop ends and the worker returns, scrapeWithAxios returns
\* success: false.  No fetch is attempted more often than that.
C17_ExactlyMaxAttemptsThenFailure ==
    /\ \A r \in RunIds : \A k \in Tasks(r) :
          /\ run[r].tasks[k].requests <= maxRetries
          /\ OnlyRetryableErrors(r, k)
             => /\ run[r].tasks[k].st \in {"backoff", "fetching", "null"}
                /\ run[r].tasks[k].st = "null" <=> run[r].tasks[k].requests = maxRetries
                                                   /\ run[r].tasks[k].retries = maxRetries
    /\ \A r \in RunIds :
          /\ run[r].attempts <= maxRetries
          /\ \A e \in run[r].ended :
                e.kind = "failed" => e.attempts = maxRetries /\ run[r].i > e.i
    /\ combined.requests <= combined.retries
    /\ combined.result = "failure"
       => combined.pc = "returned" /\ combined.requests = combined.retries

\* scrapeWithAxios has returned success: false after more than one request, and a task has settled with
\* null after maxRetries failed requests
C17_FailedAfterAllAttempts ==
    /\ combined.result = "failure"
    /\ combined.retries > 1
    /\ combined.requests = combined.retries
    /\ \E r \in RunIds : \E k \in Tasks(r) :
          /\ OnlyRetryableErrors(r, k)
          /\ run[r].tasks[k].st = "null"
          /\ run[r].tasks[k].requests = maxRetries

\* the listing loop has ended a partition after maxRetries failed requests
C17_PageFailedAfterAllAttempts ==
    \E r \in RunIds : \E e \in run[r].ended : e.kind = "failed" /\ e.attempts = maxRetries

\* C18: the delay slept before retry number k of a failed fetch is
\* 1000 * 2^(k-1) ms, in scrapeEventDetails and in the listing-page retry
\* loop: 1000 ms before the second attempt, 2000 ms before the third.
C18_BackoffStartsAtBaseDelay ==
    \A r \in RunIds :
        /\ \A k \in 1..Len(run[r].pageDelays) : run[r].pageDelays[k] = 1000 * 2 ^ (k - 1)
        /\ \A t \in Tasks(r) : \A k \in 1..Len(run[r].tasks[t].delays) :
              run[r].tasks[t].delays[k] = 1000 * 2 ^ (k - 1)

\* C19: a detail-page fetch answered 404 is not retried: the task has issued
\* one request, has slept no delay, and is settled with null.
C19_DetailNotFoundNotRetried ==
    \A r \in RunIds : \A k \in Tasks(r) :
        run[r].tasks[k].notFound
        => /\ run[r].tasks[k].requests = 1
           /\ run[r].tasks[k].delays = <<>>
           /\ run[r].tasks[k].st = "null"

\* the scrapeEventDetails tasks of run r that are started and not yet settled
InFlight(r) == {k \in Tasks(r) : ~Settled(run[r].tasks[k])}

\* C20: at every moment of a scrapeStateWorker call at most maxConcurrency
\* scrapeEventDetails tasks are started and not yet settled, whatever the number
\* of links on the page.
C20_AtMostMaxConcurrencyInFlight ==
    \A r \in RunIds : Cardinality(InFlight(r)) <= maxConcurrency

\* a page with more links than maxConcurrency has maxConcurrency tasks in flight
C20_FullChunkInFlight ==
    \E r \in RunIds :
        /\ run[r].pc = "chunk"
        /\ Len(run[r].eventLinks) > maxConcurrency
        /\ Cardinality(InFlight(r)) = maxConcurrency

\* C21: at every instant, also when the process dies in the middle of
\* saveProgress, the progress file on disk is the previous complete checkpoint
\* or the new complete one: every step leaves the file as it was or leaves the
\* complete snapshot of a run in it, so no load finds a partial file.
C21_CheckpointPreviousOrNew ==
    [][\/ file' = file
       \/ \E r \in RunIds : file' = Snapshot(run'[r], heap')]_vars

\* a run started with resume finds a progress file that JSON.parse rejects
C21_ResumeFindsPartialFile ==
    \E r \in RunIds : run[r].pc = "begin" /\ run[r].resumeTrue /\ file.partial

\* C22: a progress file that is missing or that JSON.parse rejects raises no
\* error and means a start from the beginning: the application's start-up
\* still ends with its window and its IPC handlers, start-scraping with resume
\* starts a run with empty progress, and loadProgress leaves every field of
\* the instance as it was.
C22_UnreadableCheckpointIsFreshStart ==
    [][/\ (AppReady /\ ~Readable(file))
          => app' = "ready" /\ heap'[moduleTracked'] = {}
       /\ \A r \in RunIds :
             (StartScraping(r, TRUE) /\ ~Readable(file))
             => /\ run'[r].pc = "begin"
                /\ run'[r].resumeFromState = 0
                /\ run'[r].processedEvents = 0
                /\ run'[r].totalEventsFound = 0
                /\ run'[r].stateProgress = NoProgress
                /\ run'[r].completedStates = {}
                /\ heap'[run'[r].trackedRef] = {}
       /\ \A r \in RunIds :
             (Begin(r) /\ ~Readable(file))
             => /\ run'[r].processedEvents = run[r].processedEvents
                /\ run'[r].totalEventsFound = run[r].totalEventsFound
                /\ run'[r].stateProgress = run[r].stateProgress
                /\ run'[r].completedStates = run[r].completedStates
                /\ run'[r].trackedRef = run[r].trackedRef]_vars

\* C23: the walk of one partition terminates, also when pages past the end
\* repeat earlier content and detail fetches keep failing: the number of
\* listing pages scrapeStateWorker requests does not grow with the number of
\* failed fetches, the walk ends at the latest with the first page past the
\* partition's last page.
C23_PartitionWalkEnds ==
    \A r \in RunIds : \A q \in run[r].pageReq : q[2] <= Len(site[q[1] + 1]) + 1

\* a page outcome without any link
ZeroYield(o) == o \in {"empty", "error"}

\* pages k - 1 and k of the walk both yielded no link
TwoEmptyAt(y, k) == k >= 2 /\ k <= Len(y) /\ ZeroYield(y[k - 1]) /\ ZeroYield(y[k])

\* C24: in scrapeRegionEvents the pagination of a partition ends exactly when
\* two consecutive pages yielded no link from both fetch paths: the walk has
\* returned if and only if its last two pages yielded nothing, no page after
\* the second of them is requested, and one empty page followed by a page
\* with links resets the counter.
C24_EndsAtSecondConsecutiveEmptyPage ==
    LET g == combined.region
        n == Len(g.yields)
    IN  /\ g.pc = "returned" <=> TwoEmptyAt(g.yields, n)
        /\ \A k \in 1..n : TwoEmptyAt(g.yields, k) => k = n /\ g.requested = 1..n
        /\ (n >= 1 /\ g.yields[n] = "links") => g.consecutiveEmptyPages = 0

\* the first run has returned and no other run was started
FirstRunOver == run[1].pc = "returned" /\ run[2].pc = "idle"

\* C25: a fresh run over 3 partitions, each with a first listing page of 5
\* distinct links and an empty second page, all fetches and writes succeeding,
\* ends with the 3 partitions in completedStates, processedEvents = 15, 15
\* tracked links, exactly one record per link in the sink (15 records), and
\* the last saved checkpoint shows the same.
C25_HappyPathTotals ==
    FirstRunOver
    => /\ run[1].outcome = "completed"
       /\ run[1].completedStates = StateIds
       /\ Cardinality(run[1].completedStates) = 3
       /\ run[1].processedEvents = 15
       /\ run[1].totalEventsFound = 15
       /\ Tracked(1) = AllLinks
       /\ Cardinality(Tracked(1)) = 15
       /\ \A l \in Links : sink[l] = IF l \in AllLinks THEN 1 ELSE 0
       /\ file = Snapshot(run[1], heap)

\* the fresh run has returned after it processed the 15 links
C25_FreshRunCompleted ==
    /\ FirstRunOver
    /\ run[1].processedEvents = 15
    /\ run[1].pageReq = {<<0, 1>>, <<0, 2>>, <<1, 1>>, <<1, 2>>, <<2, 1>>, <<2, 2>>}

\* a write of run r has failed for good: the task is settled without a record
WriteGivenUp(r) ==
    \E k \in Tasks(r) : run[r].tasks[k].writeFailed /\ run[r].tasks[k].st = "null"

\* C26: a sink write that keeps failing is retried a bounded number of times
\* and then ends the whole run in the Failed outcome: the task gives up only
\* with its retries used up, and from then on the run goes nowhere but to its
\* failed end, never on to further links, pages or partitions.
C26_FailedWriteIsFatal ==
    [][\A r \in RunIds :
          WriteGivenUp(r)
          => /\ \A k \in Tasks(r) :
                   (run[r].tasks[k].writeFailed /\ run[r].tasks[k].st = "null")
                   => run[r].tasks[k].retries = maxRetries
             /\ run'[r].pc # run[r].pc
                => run'[r].pc = "returned" /\ run'[r].outcome = "failed"]_vars

\* C27: a detail page fetched successfully from which no record can be
\* extracted is counted as failed and skipped: no record is written to the
\* sink for its link, its task is not a successful scrape (it is not counted
\* in processedEvents), and the link is requested once.
C27_BlankRecordSkipped ==
    \A r \in RunIds : \A k \in Tasks(r) :
        run[r].tasks[k].blank
        => /\ sink[run[r].tasks[k].link] = 0
           /\ run[r].tasks[k].st # "fulfilled"
           /\ run[r].tasks[k].requests = 1

\* the runs whose scrapeAllEvents is executing
Executing == {r \in RunIds : Live(r)}

\* C28: under any sequence of start-scraping and stop-scraping requests at
\* most one scrapeAllEvents is executing at any time, and isScraperRunning is
\* true exactly while a run is executing.
C28_AtMostOneRunExecuting ==
    /\ Cardinality(Executing) <= 1
    /\ isScraperRunning <=> Executing # {}

\* C29: reset-scraper never executes while a run is still executing: under
\* any sequence of start, stop and reset requests no run is executing when
\* the reset clears the tracked links and deletes the files, and no run that
\* saw a reset writes the progress file or the sink afterwards.
C29_NoResetWhileExecuting ==
    [][/\ ResetScraper => Executing = {}
       /\ \A r \in RunIds :
             (run[r].resetSeen /\ run'[r] # run[r]) => file' = file /\ sink' = sink]_vars

\* C30: a run ends in the Completed outcome (start-scraping returns 'Scraping
\* completed successfully' and sends the 100% 'Scraping completed' event) only
\* if it reached the end of the partition list with no stop requested; a run
\* halted by a stop request never reports completion.
C30_CompletedOnlyWithoutStop ==
    \A r \in RunIds :
        run[r].reported = "completed"
        => run[r].outcome = "completed" /\ ~run[r].stopReq

\* both runs were started without resume and have returned
TwoFreshRunsOver ==
    \A r \in {1, 2} : run[r].pc = "returned" /\ ~run[r].resumeTrue

\* C31: with fetch and write outcomes fixed by a rule, two runs that process
\* the same listing pages, each from the same (empty) set of tracked links,
\* end with the same counts: as many successful scrapes (processedEvents) and
\* as many links that were not scraped (failed or skipped, for both of which
\* scrapeEventDetails returns null).
C31_SameCountsOnSameInput ==
    TwoFreshRunsOver
    => /\ run[1].processedEvents = run[2].processedEvents
       /\ run[1].totalEventsFound - run[1].processedEvents
             = run[2].totalEventsFound - run[2].processedEvents

\* run r was started without resume, was never stopped and has returned
FreshRunOver(r) == run[r].pc = "returned" /\ ~run[r].resumeTrue /\ ~run[r].stopReq

\* the listing pages of the site and, per partition, the page after the last
PagesUpToEnd ==
    UNION {{<<i, pg>> : pg \in 1..(Len(site[i + 1]) + 1)} : i \in 0..(NumStates - 1)}

\* C32: a detail link whose scrapeEventDetails gave up with all retries used
\* is lost alone: one error event was emitted per failed attempt, and the run
\* still requested every other link of the batch, of the page's other
\* batches, of the following pages and of the following partitions, wrote
\* their records and walked every partition to its end.
C32_TerminalFailureOnlyLosesTheLink ==
    /\ \A r \in RunIds : \A k \in Tasks(r) :
          GaveUp(run[r].tasks[k]) => run[r].tasks[k].errorEvents = maxRetries
    /\ \A r \in RunIds :
          (FreshRunOver(r) /\ run[r].gaveUp # {})
          => /\ run[r].outcome = "completed"
             /\ run[r].detailReq = AllLinks
             /\ \A l \in AllLinks \ run[r].gaveUp : sink[l] > 0 /\ l \in Tracked(r)
             /\ run[r].processedEvents = Cardinality(AllLinks \ run[r].gaveUp)
             /\ run[r].pageReq = PagesUpToEnd
             /\ run[r].completedStates = {IdOf(i) : i \in 0..(NumStates - 1)}

\* a run has returned after the first link of a page of two batches was given up
C32_RunOverAfterLinkGivenUp ==
    \E r \in RunIds : FreshRunOver(r) /\ run[r].gaveUp = {1} /\ sink[5] > 0

\* the indices of the partitions whose link is usable
UsableStates == {i \in 0..(NumStates - 1) : ~MalformedLink(i)}

\* C33: an exception raised while scrapeAllEvents processes one partition (the
\* TypeError of scrapeStateWorker for an entry whose link is not a string) is
\* caught in the loop and reported as an error event, and the loop goes on:
\* the run returns as completed at the end of the list, with an error event
\* for that partition and for no other, and with every other partition walked
\* to its end and its links written.
C33_PartitionExceptionIsolated ==
    \A r \in RunIds :
        FreshRunOver(r)
        => /\ run[r].outcome = "completed"
           /\ run[r].i = NumStates
           /\ run[r].stateErrors = (0..(NumStates - 1)) \ UsableStates
           /\ \A i \in UsableStates :
                 /\ IdOf(i) \in run[r].completedStates
                 /\ \A pg \in 1..(Len(site[i + 1]) + 1) : <<i, pg>> \in run[r].pageReq
                 /\ \A l \in LinksOfState(i) : sink[l] > 0

\* a run has returned after the catch block reported the second partition and
\* the third partition was walked
C33_RunOverAfterPartitionError ==
    \E r \in RunIds :
        /\ FreshRunOver(r)
        /\ run[r].stateErrors = {1}
        /\ <<2, 1>> \in run[r].pageReq

\* C34: within one partition the listing pages are requested in strictly
\* increasing order, and page N + 1 is requested only after scrapeEventDetails
\* was called for every new link of page N and every one of these calls has
\* settled: a page is finished only with as many calls made and settled as it
\* has new links, and a further page of a partition is requested only when
\* every page requested before it is lower and is finished.
C34_PagesInOrderAfterBatches ==
    [][\A r \in RunIds :
          /\ \A q \in run'[r].pagesDone \ run[r].pagesDone :
                /\ q = <<run[r].i, run[r].currentPage>>
                /\ run[r].spawned = Len(run[r].eventLinks)
                /\ run[r].settled = Len(run[r].eventLinks)
                /\ \A k \in Tasks(r) : Settled(run[r].tasks[k])
          /\ \A q \in run'[r].pageReq \ run[r].pageReq :
                \A p \in run[r].pageReq :
                    p[1] = q[1] => p[2] < q[2] /\ p \in run[r].pagesDone]_vars

\* the second page of a partition is requested after the first page, whose
\* three new links made two batches, is finished
C34_SecondPageAfterTwoBatches ==
    \E r \in RunIds :
        /\ run[r].pc = "pageFetch"
        /\ run[r].i = 1
        /\ run[r].currentPage = 2
        /\ <<1, 1>> \in run[r].pagesDone
        /\ {4, 5, 6} \subseteq run[r].detailReq

\* the index scrapeAllEvents of run r is to start at: the currentState of the
\* progress file for resume = true, else the resumeFromState it was called with
ResumedIndex(r) ==
    IF run[r].resumeTrue
    THEN IF Readable(file) THEN file.currentState ELSE run[r].currentState
    ELSE run[r].resumeFromState

\* C35: scrapeAllEvents visits the partitions in increasing list index, from
\* the resumed index on and one at a time: its index starts at the resumed
\* index and never decreases, every listing-page and detail request belongs to
\* the partition at that index, and no request is issued for a partition whose
\* id is in completedStates.
C35_PartitionsInOrderSkippingCompleted ==
    [][\A r \in RunIds :
          /\ Begin(r) => run'[r].i = ResumedIndex(r)
          /\ run[r].pc \notin {"idle", "begin"} => run'[r].i >= run[r].i
          /\ \A q \in run'[r].pageReq \ run[r].pageReq :
                /\ q[1] = run'[r].i
                /\ IdOf(q[1]) \notin run[r].completedStates
          /\ \A l \in run'[r].detailReq \ run[r].detailReq :
                /\ l \in LinksOfState(run[r].i)
                /\ IdOf(run[r].i) \notin run[r].completedStates
          /\ \A k \in Tasks(r) : run[r].tasks[k].link \in LinksOfState(run[r].i)]_vars

\* a run resumed at the second partition, the first one completed, has
\* requested pages, and none of the first partition
C35_ResumedPastCompletedPartition ==
    \E r \in RunIds :
        /\ run[r].resumed
        /\ IdOf(0) \in run[r].startCompleted
        /\ run[r].pageReq # {}
        /\ \A q \in run[r].pageReq : q[1] >= 1

\* the progress file holds the progress of run r as it is now
SavedNow(r) == file = Snapshot(run[r], heap)

\* C36: saveProgress is called after every detail batch before the next batch
\* starts, after every processed listing page before the next page is
\* requested, after a partition is marked completed before the next partition
\* starts, and when a stop is observed before scrapeAllEvents returns: the
\* step that settles a batch, finishes a page, marks a partition or returns
\* leaves the run's progress in the file, and the run's next batch, page or
\* partition starts with that progress still in the file.
C36_SaveAfterBatchPagePartitionStop ==
    [][\A r \in RunIds :
          /\ (\/ run'[r].settled > run[r].settled
              \/ run'[r].pagesDone # run[r].pagesDone
              \/ run[r].pc # "begin" /\ run'[r].completedStates # run[r].completedStates
              \/ run[r].pc # "returned" /\ run'[r].pc = "returned")
             => file' = Snapshot(run'[r], heap')
          /\ (run'[r] # run[r] /\ Live(r)
              /\ \/ run[r].pc \in {"chunkNext", "pageHead"}
                 \/ run[r].pc = "loop" /\ run[r].pageReq # {})
             => SavedNow(r)]_vars

\* a stopped run has returned after it finished a batch, and its progress is
\* in the file
C36_StoppedRunSaved ==
    \E r \in RunIds :
        /\ run[r].stopReq
        /\ run[r].pc = "returned"
        /\ run[r].outcome = "stopped"
        /\ run[r].processedEvents > 0
        /\ SavedNow(r)

\* C37: every failed write of the progress file produces an error event on
\* the progress-event stream (onProgress), while the run goes on with its
\* in-memory progress: a run has passed at least as many error events for
\* its saves to onProgress as it had saves that failed.
C37_FailedSaveReported ==
    \A r \in RunIds : run[r].saveErrorEvents >= run[r].saveFailures

\* C38: within one run csvWriter.writeRecords is called at most once per
\* distinct event link, also for a link that a listing page lists twice
\* within one batch: while only the first run has been started, no link has
\* more than one record in the sink.
C38_OneWritePerLinkPerRun ==
    (\A r \in RunIds : r > 1 => run[r].pc = "idle")
    => \A l \in Links : sink[l] <= 1

\* C39: in every checkpoint a run saves, processedEvents is the value it had
\* when the run began plus the number of records the run has written to the
\* sink so far: whenever a step of an executing run leaves the run's snapshot
\* in the progress file, the file's processedEvents is that sum.
C39_CheckpointCountsWrites ==
    [][\A r \in RunIds :
          (Live(r) /\ run[r].pc # "begin" /\ file' # file
           /\ file' = Snapshot(run'[r], heap'))
          => file'.processedEvents = run'[r].startProcessed + run'[r].writes]_vars

\* the workers of processStatesConcurrently that have not ended
ActiveWorkers ==
    {w \in 1..Len(combined.pool.workers) : combined.pool.workers[w] = "running"}

\* C40: in processStatesConcurrently at most `concurrency` workers are active
\* at any time, every entry of the list is started exactly once (the workers
\* started and the queue together are the list), and the function returns
\* only when every worker has ended, whether it completed or failed.
C40_BoundedPoolRunsEveryStateOnce ==
    LET q == combined.pool IN
    /\ Cardinality(ActiveWorkers) <= concurrency
    /\ q.pc # "idle" => Len(q.workers) + Len(q.queue) = Len(q.states)
    /\ q.pc = "returned" => Len(q.workers) = Len(q.states) /\ ActiveWorkers = {}
====
